---- MODULE Spec2Model ----
(***************************************************************************)
(* VoiceProcessor (Voice_generator/VoiceProcessor.py): text segmentation,  *)
(* the sentence queue, the process_audio worker thread and the start /     *)
(* stop / reset / wait lifecycle, as a state machine of caller threads and *)
(* worker threads interleaved at the granularity of their shared reads and *)
(* writes.                                                                 *)
(***************************************************************************)
EXTENDS Integers, Sequences, FiniteSets, TLC

\* ------------------------------------------------------------------ bounds
\* Total number of public calls the caller threads begin in one behaviour.
MaxCalls == 3

\* Caller threads of the concurrent specifications, and of the sequential one.
Callers == {1, 2}
Solo == {1}

\* Every call starts at most one worker thread.
Workers == 1..MaxCalls

\* -------------------------------------------------------------- strings
\* A Python str is a sequence of one-character strings.
NL == "\n"
IsSpace(c) == c \in {NL, " "}

\* s[i..j] (1-based, inclusive), empty when j < i.
Slice(s, i, j) == IF j < i THEN <<>> ELSE SubSeq(s, i, j)

\* str.strip(): drop leading and trailing whitespace.
strip(s) ==
  LET idx == {i \in 1..Len(s) : ~IsSpace(s[i])}
  IN IF idx = {} THEN <<>>
     ELSE LET lo == CHOOSE i \in idx : \A j \in idx : i <= j
              hi == CHOOSE i \in idx : \A j \in idx : j <= i
          IN SubSeq(s, lo, hi)

\* Positions at which "\n\n" occurs in s.
SepAt(s) == {i \in 1..(Len(s) - 1) : s[i] = NL /\ s[i + 1] = NL}

\* "\n\n" in s
HasSep(s) == SepAt(s) # {}

\* s.split("\n\n", 1): cut at the leftmost separator, or <<s>> if none.
split1(s) ==
  IF ~HasSep(s) THEN <<s>>
  ELSE LET i == CHOOSE k \in SepAt(s) : \A j \in SepAt(s) : k <= j
       IN <<Slice(s, 1, i - 1), Slice(s, i + 2, Len(s))>>

\* s.split("\n\n"): cut at every separator, scanning left to right.
RECURSIVE split(_)
split(s) ==
  LET p == split1(s)
  IN IF Len(p) = 1 THEN p ELSE <<p[1]>> \o split(p[2])

\* [x.strip() for x in xs]
RECURSIVE stripAll(_)
stripAll(xs) == IF xs = <<>> THEN <<>> ELSE <<strip(Head(xs))>> \o stripAll(Tail(xs))

\* ---------------------------------------------------------------- voice
\* str.lower() on the letters that occur in the inputs.
LowerCase ==
  [A |-> "a", B |-> "b", C |-> "c", E |-> "e", F |-> "f", H |-> "h", I |-> "i",
   L |-> "l", M |-> "m", N |-> "n", O |-> "o", R |-> "r", S |-> "s", V |-> "v",
   X |-> "x", Y |-> "y"]
lower_char(c) == IF c \in DOMAIN LowerCase THEN LowerCase[c] ELSE c
lower(s) == [i \in 1..Len(s) |-> lower_char(s[i])]

\* ALLOWED_VOICES
ALLOWED_VOICES ==
  (1 :> <<"a", "l", "l", "o", "y">>) @@
  (2 :> <<"e", "c", "h", "o">>) @@
  (3 :> <<"f", "a", "b", "l", "e">>) @@
  (4 :> <<"o", "n", "y", "x">>) @@
  (5 :> <<"n", "o", "v", "a">>) @@
  (6 :> <<"s", "h", "i", "m", "m", "e", "r">>)

\* ALLOWED_VOICES.values()
AllowedNames == {ALLOWED_VOICES[k] : k \in DOMAIN ALLOWED_VOICES}

\* A Python value passed as `voice`: its type, and its value as a number
\* (int, bool, float) or as a string. True and False are the ints 1 and 0.
PyInt(n) == [kind |-> "int", num |-> n, str |-> <<>>]
PyBool(b) == [kind |-> "bool", num |-> IF b THEN 1 ELSE 0, str |-> <<>>]
PyFloat(n) == [kind |-> "float", num |-> n, str |-> <<>>]
PyStr(s) == [kind |-> "str", num |-> 0, str |-> s]
PyNone == [kind |-> "none", num |-> 0, str |-> <<>>]

\* isinstance(voice, int): bool is a subclass of int.
is_int(v) == v.kind \in {"int", "bool"}

\* dict.get(key, default)
dict_get(d, key, default) == IF key \in DOMAIN d THEN d[key] ELSE default

\* The default of the constructor's `voice` parameter.
DefaultVoice == PyStr(ALLOWED_VOICES[1])

\* validate_voice returning an allowed name as it was spelled by the caller.
validate_voice_as_given(v) ==
  IF is_int(v) THEN dict_get(ALLOWED_VOICES, v.num, ALLOWED_VOICES[1])
  ELSE IF v.kind = "str" /\ lower(v.str) \in AllowedNames THEN v.str
  ELSE ALLOWED_VOICES[1]

\* validate_voice(voice)
validate_voice(v) ==
  IF is_int(v) THEN dict_get(ALLOWED_VOICES, v.num, <<"a", "l", "l", "o", "y">>)
  ELSE IF v.kind = "str" /\ lower(v.str) \in AllowedNames THEN lower(v.str)
  ELSE <<"a", "l", "l", "o", "y">>

\* ---------------------------------------------------------------- state
VARIABLES
  sentence_queue,    \* Queue.queue: the queued items, each [id, text]
  unfinished_tasks,  \* Queue.unfinished_tasks
  token_buffer,      \* self.token_buffer
  is_processing,     \* threading.Event
  stop_event,        \* threading.Event
  audio_thread,      \* self.audio_thread: 0 is None, else a worker
  processing_lock,   \* 0 is unlocked, else the caller holding it
  wpc,               \* per worker: where process_audio stands
  sentence,          \* per worker: the local `sentence` (NoSentence when none)
  pc,                \* per caller: where its current call stands
  op,                \* per caller: the public method it is running
  text,              \* per caller: the argument of add_text_to_queue / add_token
  paragraphs,        \* per caller: the paragraphs still to put (add_text_to_queue)
  parts,             \* per caller: the local `parts` (check_and_process_tokens)
  joined,            \* per caller: the thread object it is joining
  calls,             \* history: number of public calls begun
  nput,              \* history: number of put() calls so far (the next item's id)
  spoken,            \* history: ids in the order they were sent to the TTS request
  done,              \* history: ids in the order task_done() was called for them
  enqueued,          \* history, per caller: texts put by its current call
  resetq,            \* history, per caller: ids queued when its running reset set stop_event
  alive0,            \* history, per caller: workers alive when its stop_audio_processing began
  fed,               \* history: the tokens appended since the buffer was last emptied
  cut,               \* history: the texts put from the token buffer since then
  flushed,           \* history: finalize_tokens has ended this token stream
  voice_arg,         \* the `voice` argument the object was constructed with
  voice              \* self.voice

shared == <<sentence_queue, unfinished_tasks, token_buffer, is_processing,
            stop_event, audio_thread, processing_lock>>
wvars == <<wpc, sentence>>
cvars == <<pc, op, text, paragraphs, parts, joined>>
hvars == <<calls, nput, spoken, done, enqueued, resetq, alive0, fed, cut, flushed>>
config == <<voice_arg, voice>>
vars == <<shared, wvars, cvars, hvars, config>>

\* A worker holding no item.
NoSentence == [id |-> 0, text |-> <<>>]

\* threading.Thread.is_alive(): started and run() not yet returned.
is_alive(w) == wpc[w] \notin {"none", "new", "dead"}

AliveWorkers == {w \in Workers : is_alive(w)}

Init ==
  /\ sentence_queue = <<>>
  /\ unfinished_tasks = 0
  /\ token_buffer = <<>>
  /\ is_processing = FALSE
  /\ stop_event = FALSE
  /\ audio_thread = 0
  /\ processing_lock = 0
  /\ wpc = [w \in Workers |-> "none"]
  /\ sentence = [w \in Workers |-> NoSentence]
  /\ pc = [t \in Callers |-> "idle"]
  /\ op = [t \in Callers |-> "none"]
  /\ text = [t \in Callers |-> <<>>]
  /\ paragraphs = [t \in Callers |-> <<>>]
  /\ parts = [t \in Callers |-> <<>>]
  /\ joined = [t \in Callers |-> 0]
  /\ calls = 0
  /\ nput = 0
  /\ spoken = <<>>
  /\ done = <<>>
  /\ enqueued = [t \in Callers |-> <<>>]
  /\ resetq = [t \in Callers |-> {}]
  /\ alive0 = [t \in Callers |-> {}]
  /\ fed = <<>>
  /\ cut = <<>>
  /\ flushed = FALSE
  /\ voice_arg = DefaultVoice
  /\ voice = validate_voice(DefaultVoice)

\* ------------------------------------------------------- caller helpers
Goto(t, label) == pc' = [pc EXCEPT ![t] = label]

\* Leaving a public method (normally or by an exception): the `with` block
\* releases processing_lock if this caller holds it; its locals are gone.
Return(t) ==
  /\ pc' = [pc EXCEPT ![t] = "idle"]
  /\ op' = [op EXCEPT ![t] = "none"]
  /\ text' = [text EXCEPT ![t] = <<>>]
  /\ paragraphs' = [paragraphs EXCEPT ![t] = <<>>]
  /\ parts' = [parts EXCEPT ![t] = <<>>]
  /\ joined' = [joined EXCEPT ![t] = 0]
  /\ enqueued' = [enqueued EXCEPT ![t] = <<>>]
  /\ resetq' = [resetq EXCEPT ![t] = {}]
  /\ alive0' = [alive0 EXCEPT ![t] = {}]
  /\ processing_lock' = IF processing_lock = t THEN 0 ELSE processing_lock

\* Beginning a public method.
Begin(t, name) ==
  /\ pc[t] = "idle"
  /\ calls < MaxCalls
  /\ calls' = calls + 1
  /\ op' = [op EXCEPT ![t] = name]

\* Entering the `with` block without waiting for the lock to be free.
acquire_unchecked(t) == processing_lock' = t

\* with self.processing_lock: the caller goes on once the lock is free, and
\* holds it until it leaves the block.
acquire(t) == processing_lock = 0 /\ processing_lock' = t

\* put() pushing at the head of the deque instead of the tail.
put_front(s) ==
  /\ sentence_queue' = <<[id |-> nput + 1, text |-> s]>> \o sentence_queue
  /\ unfinished_tasks' = unfinished_tasks + 1
  /\ nput' = nput + 1

\* Queue.put(s): append the item and count it as unfinished, under Queue.mutex.
put(s) ==
  /\ sentence_queue' = Append(sentence_queue, [id |-> nput + 1, text |-> s])
  /\ unfinished_tasks' = unfinished_tasks + 1
  /\ nput' = nput + 1

QueuedIds == {sentence_queue[i].id : i \in 1..Len(sentence_queue)}

\* ---------------------------------------------------- add_text_to_queue
\* with self.processing_lock: paragraphs = text.split('\n\n')
add_text_to_queue(t, txt) ==
  /\ UNCHANGED config
  /\ Begin(t, "add_text")
  /\ acquire(t)
  /\ text' = [text EXCEPT ![t] = txt]
  /\ paragraphs' = [paragraphs EXCEPT ![t] = split(txt)]
  /\ Goto(t, "text_put")
  /\ UNCHANGED <<sentence_queue, unfinished_tasks, token_buffer, is_processing,
                 stop_event, audio_thread, wvars, parts, joined,
                 nput, spoken, done, enqueued, resetq, alive0, fed, cut, flushed>>

\* A paragraph put together with the text waiting in the token buffer.
paragraph_after_buffer(p) == strip(token_buffer \o p)

\* What add_text_to_queue puts for one paragraph.
paragraph_item(p) == strip(p)

\* for paragraph in paragraphs: self.sentence_queue.put(paragraph.strip())
text_put(t) ==
  /\ UNCHANGED config
  /\ pc[t] = "text_put"
  /\ put(paragraph_item(Head(paragraphs[t])))
  /\ enqueued' = [enqueued EXCEPT ![t] = Append(@, paragraph_item(Head(paragraphs[t])))]
  /\ paragraphs' = [paragraphs EXCEPT ![t] = Tail(@)]
  /\ Goto(t, IF Tail(paragraphs[t]) = <<>> THEN "ensure" ELSE "text_put")
  /\ UNCHANGED <<token_buffer, is_processing, stop_event, audio_thread,
                 processing_lock, wvars, op, text, parts, joined,
                 calls, spoken, done, resetq, alive0, fed, cut, flushed>>

\* ---------------------------------------- _ensure_audio_processing_started
\* if self.audio_thread is None or not self.audio_thread.is_alive()
needs_start == audio_thread = 0 \/ ~is_alive(audio_thread)

ensure_started(t) ==
  /\ UNCHANGED config
  /\ pc[t] = "ensure"
  /\ IF needs_start
       THEN /\ Goto(t, "start_clear")
            /\ UNCHANGED <<op, text, paragraphs, parts, joined, enqueued,
                           resetq, alive0, processing_lock>>
       ELSE Return(t)
  /\ UNCHANGED <<sentence_queue, unfinished_tasks, token_buffer, is_processing,
                 stop_event, audio_thread, wvars,
                 calls, nput, spoken, done, fed, cut, flushed>>

\* ------------------------------------------------- start_audio_processing
\* self.stop_event.clear()
start_clear(t) ==
  /\ UNCHANGED config
  /\ pc[t] = "start_clear"
  /\ stop_event' = FALSE
  /\ Goto(t, "start_thread")
  /\ UNCHANGED <<sentence_queue, unfinished_tasks, token_buffer, is_processing,
                 audio_thread, processing_lock, wvars,
                 op, text, paragraphs, parts, joined, hvars>>

\* self.audio_thread = threading.Thread(target=self.process_audio, daemon=True)
start_thread(t) ==
  /\ UNCHANGED config
  /\ pc[t] = "start_thread"
  /\ \E w \in Workers :
       /\ wpc[w] = "none"
       /\ \A v \in Workers : wpc[v] = "none" => w <= v
       /\ audio_thread' = w
       /\ wpc' = [wpc EXCEPT ![w] = "new"]
  /\ Goto(t, "start_run")
  /\ UNCHANGED <<sentence_queue, unfinished_tasks, token_buffer, is_processing,
                 stop_event, processing_lock, sentence,
                 op, text, paragraphs, parts, joined, hvars>>

\* self.audio_thread.start(): the attribute is read again; starting a thread
\* that was already started raises RuntimeError.
start_run(t) ==
  /\ UNCHANGED config
  /\ pc[t] = "start_run"
  /\ wpc' = IF wpc[audio_thread] = "new"
              THEN [wpc EXCEPT ![audio_thread] = "loop"]
              ELSE wpc
  /\ Return(t)
  /\ UNCHANGED <<sentence_queue, unfinished_tasks, token_buffer, is_processing,
                 stop_event, audio_thread, sentence,
                 calls, nput, spoken, done, fed, cut, flushed>>

\* ------------------------------------------------------------- add_token
\* with self.processing_lock: self.token_buffer += token  (the read half)
add_token(t, token) ==
  /\ UNCHANGED config
  /\ Begin(t, "add_token")
  /\ acquire(t)
  /\ text' = [text EXCEPT ![t] = token]
  /\ parts' = [parts EXCEPT ![t] = <<token_buffer \o token>>]
  /\ Goto(t, "tok_store")
  /\ UNCHANGED <<sentence_queue, unfinished_tasks, token_buffer, is_processing,
                 stop_event, audio_thread, wvars, paragraphs, joined,
                 nput, spoken, done, enqueued, resetq, alive0, fed, cut, flushed>>

\* self.token_buffer += token  (the write half)
tok_store(t) ==
  /\ UNCHANGED config
  /\ pc[t] = "tok_store"
  /\ token_buffer' = parts[t][1]
  /\ parts' = [parts EXCEPT ![t] = <<>>]
  /\ fed' = IF flushed THEN text[t] ELSE fed \o text[t]
  /\ cut' = IF flushed THEN <<>> ELSE cut
  /\ flushed' = FALSE
  /\ Goto(t, "tok_check")
  /\ UNCHANGED <<sentence_queue, unfinished_tasks, is_processing, stop_event,
                 audio_thread, processing_lock, wvars, op, text, paragraphs,
                 joined, calls, nput, spoken, done, enqueued, resetq, alive0>>

\* ---------------------------------------------- check_and_process_tokens
\* while "\n\n" in self.token_buffer
tok_check(t) ==
  /\ UNCHANGED config
  /\ pc[t] = "tok_check"
  /\ Goto(t, IF HasSep(token_buffer) THEN "tok_split" ELSE "ensure")
  /\ UNCHANGED <<shared, wvars, op, text, paragraphs, parts, joined, hvars>>

\* parts = self.token_buffer.split("\n\n", 1)
tok_split(t) ==
  /\ UNCHANGED config
  /\ pc[t] = "tok_split"
  /\ parts' = [parts EXCEPT ![t] = split1(token_buffer)]
  /\ Goto(t, "tok_put")
  /\ UNCHANGED <<shared, wvars, op, text, paragraphs, joined, hvars>>

\* self.sentence_queue.put(parts[0].strip())
tok_put(t) ==
  /\ UNCHANGED config
  /\ pc[t] = "tok_put"
  /\ put(strip(parts[t][1]))
  /\ enqueued' = [enqueued EXCEPT ![t] = Append(@, strip(parts[t][1]))]
  /\ cut' = Append(cut, strip(parts[t][1]))
  /\ Goto(t, "tok_rest")
  /\ UNCHANGED <<token_buffer, is_processing, stop_event, audio_thread,
                 processing_lock, wvars, op, text, paragraphs, parts, joined,
                 calls, spoken, done, resetq, alive0, fed, flushed>>

\* What check_and_process_tokens keeps in the buffer after a boundary.
remainder(p) == strip(p)

\* self.token_buffer = parts[1].strip(); IndexError when the buffer was
\* emptied between the `in` test and the split.
tok_rest(t) ==
  /\ UNCHANGED config
  /\ pc[t] = "tok_rest"
  /\ IF Len(parts[t]) < 2
       THEN /\ Return(t)
            /\ UNCHANGED token_buffer
       ELSE /\ token_buffer' = remainder(parts[t][2])
            /\ parts' = [parts EXCEPT ![t] = <<>>]
            /\ Goto(t, "tok_check")
            /\ UNCHANGED <<op, text, paragraphs, joined, enqueued, resetq, alive0, processing_lock>>
  /\ UNCHANGED <<sentence_queue, unfinished_tasks, is_processing, stop_event,
                 audio_thread, wvars, calls, nput, spoken, done, fed, cut, flushed>>

\* -------------------------------------------------------- finalize_tokens
\* with self.processing_lock: if self.token_buffer
finalize_tokens(t) ==
  /\ UNCHANGED config
  /\ pc[t] = "idle"
  /\ calls < MaxCalls
  /\ calls' = calls + 1
  /\ processing_lock = 0
  /\ IF token_buffer # <<>>
       THEN /\ processing_lock' = t
            /\ op' = [op EXCEPT ![t] = "finalize"]
            /\ Goto(t, "fin_put")
            /\ UNCHANGED flushed
       ELSE /\ flushed' = TRUE
            /\ UNCHANGED <<processing_lock, pc, op>>
  /\ UNCHANGED <<sentence_queue, unfinished_tasks, token_buffer, is_processing,
                 stop_event, audio_thread, wvars, text, paragraphs, parts, joined,
                 nput, spoken, done, enqueued, resetq, alive0, fed, cut>>

\* self.sentence_queue.put(self.token_buffer.strip())
fin_put(t) ==
  /\ UNCHANGED config
  /\ pc[t] = "fin_put"
  /\ put(strip(token_buffer))
  /\ enqueued' = [enqueued EXCEPT ![t] = Append(@, strip(token_buffer))]
  /\ cut' = Append(cut, strip(token_buffer))
  /\ Goto(t, "fin_clear")
  /\ UNCHANGED <<token_buffer, is_processing, stop_event, audio_thread,
                 processing_lock, wvars, op, text, paragraphs, parts, joined,
                 calls, spoken, done, resetq, alive0, fed, flushed>>

\* self.token_buffer = ""
fin_clear(t) ==
  /\ UNCHANGED config
  /\ pc[t] = "fin_clear"
  /\ token_buffer' = <<>>
  /\ flushed' = TRUE
  /\ Return(t)
  /\ UNCHANGED <<sentence_queue, unfinished_tasks, is_processing, stop_event,
                 audio_thread, wvars, calls, nput, spoken, done, fed, cut>>

\* -------------------------------------------------- stop_audio_processing
\* A caller enters stop_audio_processing().
stop_audio_processing(t) ==
  /\ UNCHANGED config
  /\ Begin(t, "stop")
  /\ alive0' = [alive0 EXCEPT ![t] = AliveWorkers]
  /\ Goto(t, "stop_set")
  /\ UNCHANGED <<shared, wvars, text, paragraphs, parts, joined,
                 nput, spoken, done, enqueued, resetq, fed, cut, flushed>>

\* self.stop_event.set()
stop_set(t) ==
  /\ UNCHANGED config
  /\ pc[t] = "stop_set"
  /\ stop_event' = TRUE
  /\ resetq' = IF op[t] = "reset" THEN [resetq EXCEPT ![t] = QueuedIds] ELSE resetq
  /\ Goto(t, "stop_alive")
  /\ UNCHANGED <<sentence_queue, unfinished_tasks, token_buffer, is_processing,
                 audio_thread, processing_lock, wvars,
                 op, text, paragraphs, parts, joined,
                 calls, nput, spoken, done, enqueued, alive0, fed, cut, flushed>>

\* if self.audio_thread and self.audio_thread.is_alive()
must_join == audio_thread # 0 /\ is_alive(audio_thread)

stop_alive(t) ==
  /\ UNCHANGED config
  /\ pc[t] = "stop_alive"
  /\ Goto(t, IF must_join THEN "stop_join" ELSE "clear_queue")
  /\ UNCHANGED <<shared, wvars, op, text, paragraphs, parts, joined, hvars>>

\* self.audio_thread.join(): the attribute is read again; joining a thread
\* that has not been started raises RuntimeError.
stop_join(t) ==
  /\ UNCHANGED config
  /\ pc[t] = "stop_join"
  /\ IF wpc[audio_thread] = "new"
       THEN Return(t)
       ELSE /\ joined' = [joined EXCEPT ![t] = audio_thread]
            /\ Goto(t, "stop_wait")
            /\ UNCHANGED <<op, text, paragraphs, parts, enqueued, resetq, alive0, processing_lock>>
  /\ UNCHANGED <<sentence_queue, unfinished_tasks, token_buffer, is_processing,
                 stop_event, audio_thread, wvars,
                 calls, nput, spoken, done, fed, cut, flushed>>

\* Thread.join() returns once the joined thread has terminated.
stop_wait(t) ==
  /\ UNCHANGED config
  /\ pc[t] = "stop_wait"
  /\ wpc[joined[t]] = "dead"
  /\ joined' = [joined EXCEPT ![t] = 0]
  /\ Goto(t, "clear_queue")
  /\ UNCHANGED <<shared, wvars, op, text, paragraphs, parts, hvars>>

\* ------------------------------------------------------------ clear_queues
\* What clear_queues leaves of the queue's state: the deque is emptied,
\* unfinished_tasks is not touched.
cleared_queue(q) == <<>>
cleared_unfinished(n) == n

\* with self.sentence_queue.mutex: self.sentence_queue.queue.clear()
clear_queue(t) ==
  /\ UNCHANGED config
  /\ pc[t] = "clear_queue"
  /\ sentence_queue' = cleared_queue(sentence_queue)
  /\ unfinished_tasks' = cleared_unfinished(unfinished_tasks)
  /\ Goto(t, "clear_buffer")
  /\ UNCHANGED <<token_buffer, is_processing, stop_event, audio_thread,
                 processing_lock, wvars, op, text, paragraphs, parts, joined, hvars>>

\* self.token_buffer = ""
clear_buffer(t) ==
  /\ UNCHANGED config
  /\ pc[t] = "clear_buffer"
  /\ token_buffer' = <<>>
  /\ fed' = <<>>
  /\ cut' = <<>>
  /\ flushed' = FALSE
  /\ Goto(t, "clear_flag")
  /\ UNCHANGED <<sentence_queue, unfinished_tasks, is_processing, stop_event,
                 audio_thread, processing_lock, wvars, op, text, paragraphs,
                 parts, joined, calls, nput, spoken, done, enqueued, resetq, alive0>>

\* self.is_processing.clear(); then stop_audio_processing returns to its
\* caller, which for reset_audio_playback goes on to start_audio_processing.
clear_flag(t) ==
  /\ UNCHANGED config
  /\ pc[t] = "clear_flag"
  /\ is_processing' = FALSE
  /\ IF op[t] = "reset"
       THEN /\ Goto(t, "start_clear")
            /\ UNCHANGED <<op, text, paragraphs, parts, joined, enqueued,
                           resetq, alive0, processing_lock>>
       ELSE Return(t)
  /\ UNCHANGED <<sentence_queue, unfinished_tasks, token_buffer, stop_event,
                 audio_thread, wvars, calls, nput, spoken, done, fed, cut, flushed>>

\* ---------------------------------------------------- reset_audio_playback
\* A caller enters reset_audio_playback(): stop_audio_processing() first.
reset_audio_playback(t) ==
  /\ UNCHANGED config
  /\ Begin(t, "reset")
  /\ Goto(t, "stop_set")
  /\ UNCHANGED <<shared, wvars, text, paragraphs, parts, joined,
                 nput, spoken, done, enqueued, resetq, alive0, fed, cut, flushed>>

\* ----------------------------------------------------- wait_for_completion
\* A caller enters wait_for_completion().
wait_for_completion(t) ==
  /\ UNCHANGED config
  /\ Begin(t, "wait")
  /\ Goto(t, "wait_join")
  /\ UNCHANGED <<shared, wvars, text, paragraphs, parts, joined,
                 nput, spoken, done, enqueued, resetq, alive0, fed, cut, flushed>>

\* self.sentence_queue.join(): blocks until unfinished_tasks is zero.
queue_join(t) ==
  /\ UNCHANGED config
  /\ pc[t] = "wait_join"
  /\ unfinished_tasks = 0
  /\ Goto(t, "stop_set")
  /\ UNCHANGED <<shared, wvars, op, text, paragraphs, parts, joined, hvars>>

\* ------------------------------------------------- process_audio (worker)
WGoto(w, label) == wpc' = [wpc EXCEPT ![w] = label]

\* while not self.stop_event.is_set() ...
loop_stop(w) ==
  /\ UNCHANGED config
  /\ wpc[w] = "loop"
  /\ WGoto(w, IF stop_event THEN "loop_empty" ELSE "get")
  /\ UNCHANGED <<shared, sentence, cvars, hvars>>

\* ... or not self.sentence_queue.empty(); the loop ends when both fail
loop_empty(w) ==
  /\ UNCHANGED config
  /\ wpc[w] = "loop_empty"
  /\ WGoto(w, IF sentence_queue = <<>> THEN "fade" ELSE "get")
  /\ UNCHANGED <<shared, sentence, cvars, hvars>>

\* Queue.get takes the item at the head of the deque.
taken(q) == Head(q)
left(q) == Tail(q)

\* sentence = self.sentence_queue.get(timeout=1); on Empty: continue
get(w) ==
  /\ UNCHANGED config
  /\ wpc[w] = "get"
  /\ IF sentence_queue = <<>>
       THEN /\ WGoto(w, "loop")
            /\ UNCHANGED <<sentence_queue, sentence>>
       ELSE /\ sentence' = [sentence EXCEPT ![w] = taken(sentence_queue)]
            /\ sentence_queue' = left(sentence_queue)
            /\ WGoto(w, "post")
  /\ UNCHANGED <<unfinished_tasks, token_buffer, is_processing, stop_event,
                 audio_thread, processing_lock, cvars, hvars>>

\* self.is_processing.set(); response = client.post(...);
\* response.raise_for_status(): the request succeeds or raises
post(w) ==
  /\ UNCHANGED config
  /\ wpc[w] = "post"
  /\ is_processing' = TRUE
  /\ spoken' = Append(spoken, sentence[w].id)
  /\ \E ok \in BOOLEAN : WGoto(w, IF ok THEN "write" ELSE "except")
  /\ UNCHANGED <<sentence_queue, unfinished_tasks, token_buffer, stop_event,
                 audio_thread, processing_lock, sentence, cvars,
                 calls, nput, done, enqueued, resetq, alive0, fed, cut, flushed>>

\* for chunk in response.iter_bytes(self.chunk_size): stream.write(chunk):
\* every chunk is written, or a read or a write raises
write(w) ==
  /\ UNCHANGED config
  /\ wpc[w] = "write"
  /\ \E ok \in BOOLEAN : WGoto(w, IF ok THEN "brk" ELSE "except")
  /\ UNCHANGED <<shared, sentence, cvars, hvars>>

\* An exception that is not caught ends the thread.
uncaught == "dead"

\* Where the worker goes from the except clause.
after_except == "finally"

\* except Exception as e: logging.error(...)
except(w) ==
  /\ UNCHANGED config
  /\ wpc[w] = "except"
  /\ WGoto(w, after_except)
  /\ UNCHANGED <<shared, sentence, cvars, hvars>>

\* if self.stop_event.is_set() ...
brk_stop(w) ==
  /\ UNCHANGED config
  /\ wpc[w] = "brk"
  /\ WGoto(w, IF stop_event THEN "brk_empty" ELSE "finally")
  /\ UNCHANGED <<shared, sentence, cvars, hvars>>

\* A break that leaves the loop at once, as one outside the try statement.
break_out == "fade"

\* Where `break` inside the try statement goes: through the finally clause.
on_break == "finally_break"

\* ... and self.sentence_queue.empty(): break
brk_empty(w) ==
  /\ UNCHANGED config
  /\ wpc[w] = "brk_empty"
  /\ WGoto(w, IF sentence_queue = <<>> THEN on_break ELSE "finally")
  /\ UNCHANGED <<shared, sentence, cvars, hvars>>

\* finally: self.is_processing.clear(); self.sentence_queue.task_done().
\* task_done() raises ValueError when nothing is unfinished, which ends the
\* thread; otherwise the loop goes on, or ends after a break.
task_done(n) == n - 1

finally(w) ==
  /\ UNCHANGED config
  /\ wpc[w] \in {"finally", "finally_break"}
  /\ is_processing' = FALSE
  /\ IF unfinished_tasks = 0
       THEN /\ WGoto(w, "dead")
            /\ UNCHANGED <<unfinished_tasks, done>>
       ELSE /\ unfinished_tasks' = task_done(unfinished_tasks)
            /\ done' = Append(done, sentence[w].id)
            /\ WGoto(w, IF wpc[w] = "finally" THEN "loop" ELSE "fade")
  /\ sentence' = [sentence EXCEPT ![w] = NoSentence]
  /\ UNCHANGED <<sentence_queue, token_buffer, stop_event, audio_thread,
                 processing_lock, cvars,
                 calls, nput, spoken, enqueued, resetq, alive0, fed, cut, flushed>>

\* self.fade_out_audio(stream)
fade_out_audio(w) ==
  /\ UNCHANGED config
  /\ wpc[w] = "fade"
  /\ WGoto(w, "close")
  /\ UNCHANGED <<shared, sentence, cvars, hvars>>

\* stream.stop_stream(); stream.close(); p.terminate(); the thread ends
close(w) ==
  /\ UNCHANGED config
  /\ wpc[w] = "close"
  /\ WGoto(w, "dead")
  /\ UNCHANGED <<shared, sentence, cvars, hvars>>

\* ------------------------------------------------------- specifications
Worker(w) ==
  \/ loop_stop(w)
  \/ loop_empty(w)
  \/ get(w)
  \/ post(w)
  \/ write(w)
  \/ except(w)
  \/ brk_stop(w)
  \/ brk_empty(w)
  \/ finally(w)
  \/ fade_out_audio(w)
  \/ close(w)

\* A caller going on with the call it is in.
Continue(t) ==
  \/ text_put(t)
  \/ ensure_started(t)
  \/ start_clear(t)
  \/ start_thread(t)
  \/ start_run(t)
  \/ tok_store(t)
  \/ tok_check(t)
  \/ tok_split(t)
  \/ tok_put(t)
  \/ tok_rest(t)
  \/ fin_put(t)
  \/ fin_clear(t)
  \/ stop_set(t)
  \/ stop_alive(t)
  \/ stop_join(t)
  \/ stop_wait(t)
  \/ clear_queue(t)
  \/ clear_buffer(t)
  \/ clear_flag(t)
  \/ queue_join(t)

\* A caller beginning a call other than reset_audio_playback, with the text
\* and the token drawn from the given sets.
Call(t, txts, tokens) ==
  \/ \E txt \in txts : add_text_to_queue(t, txt)
  \/ \E token \in tokens : add_token(t, token)
  \/ finalize_tokens(t)
  \/ stop_audio_processing(t)
  \/ wait_for_completion(t)

\* Inputs of the concurrent specifications.
Texts == {<<"A", NL, NL, "B">>}
Tokens == {<<"A", NL, NL, "B">>}

\* Two caller threads, every public method.
Next ==
  \/ \E t \in Callers : Call(t, Texts, Tokens) \/ reset_audio_playback(t) \/ Continue(t)
  \/ \E w \in Workers : Worker(w)

Spec == Init /\ [][Next]_vars

\* Two caller threads that never call reset_audio_playback.
NextNoReset ==
  \/ \E t \in Callers : Call(t, Texts, Tokens) \/ Continue(t)
  \/ \E w \in Workers : Worker(w)

SpecNoReset == Init /\ [][NextNoReset]_vars

\* One caller thread, every public method.
NextSolo ==
  \/ \E t \in Solo : Call(t, Texts, Tokens) \/ reset_audio_playback(t) \/ Continue(t)
  \/ \E w \in Workers : Worker(w)

SpecSolo == Init /\ [][NextSolo]_vars

\* Inputs of the segmentation specification: a trailing separator, two
\* consecutive separators, a separator straddling two tokens, a token that
\* ends inside a separator.
SegTexts == {<<"A", NL, NL, "B", NL, NL>>, <<"A", NL, NL, NL, NL, "B">>}
SegTokens ==
  {<<"A", NL>>, <<NL>>, <<"B">>, <<"A", NL, NL, "B", NL>>, <<NL, "C">>}

\* One caller thread, every public method, the segmentation inputs.
NextSeg ==
  \/ \E t \in Solo : Call(t, SegTexts, SegTokens) \/ reset_audio_playback(t) \/ Continue(t)
  \/ \E w \in Workers : Worker(w)

SpecSeg == Init /\ [][NextSeg]_vars

\* Scheduling: a thread that can take its next step is eventually scheduled,
\* callers inside a call and workers alike. Beginning a new call is up to
\* the application and is under no fairness.
FairCallers(T) == \A t \in T : WF_vars(Continue(t))
FairWorkers == \A w \in Workers : WF_vars(Worker(w))

FairNoReset == SpecNoReset /\ FairCallers(Callers) /\ FairWorkers
FairSolo == SpecSolo /\ FairCallers(Solo) /\ FairWorkers

\* ------------------------------------------------------ voice resolution
\* s with the letters at the positions in U in upper case.
upper_char(c) ==
  IF \E k \in DOMAIN LowerCase : LowerCase[k] = c
    THEN CHOOSE k \in DOMAIN LowerCase : LowerCase[k] = c
    ELSE c
Spelled(s, U) == [i \in 1..Len(s) |-> IF i \in U THEN upper_char(s[i]) ELSE s[i]]

\* The values the constructor is given: ints inside and outside the table,
\* the booleans, an integral float, None, every spelling in upper and lower
\* case of the names of the table, and strings that are no name.
\* The ints tried run from -BelowVoice to HiVoice.
BelowVoice == 2
HiVoice == 8
VoiceInputs ==
  {PyInt(n) : n \in (0 - BelowVoice)..HiVoice} \cup {PyInt(99)}
  \cup {PyBool(b) : b \in BOOLEAN}
  \cup {PyFloat(3), PyNone}
  \cup UNION {{PyStr(Spelled(ALLOWED_VOICES[k], U)) :
                  U \in SUBSET (1..Len(ALLOWED_VOICES[k]))} :
               k \in DOMAIN ALLOWED_VOICES}
  \cup {PyStr(s) : s \in {<<>>, <<" ", "a", "l", "l", "o", "y">>,
                          <<"a", "l", "l", "o">>, <<"3">>,
                          <<"n", "o", "t", "-", "a", "-", "v", "o", "i", "c", "e">>}}

\* VoiceProcessor(api_key, voice): self.voice = self.validate_voice(voice),
\* the rest of the object as in Init.
construct(v) ==
  /\ pc = [t \in Callers |-> "idle"]
  /\ calls = 0
  /\ voice_arg' = v
  /\ voice' = validate_voice(v)
  /\ UNCHANGED <<shared, wvars, cvars, hvars>>

NextVoice == \E v \in VoiceInputs : construct(v)

SpecVoice == Init /\ [][NextVoice]_vars

\* ---------------------------------------------------------------- claims
InSeq(x, sq) == \E i \in 1..Len(sq) : sq[i] = x
Increasing(sq) == \A i, j \in 1..Len(sq) : i < j => sq[i] < sq[j]
QueueIds == [i \in 1..Len(sentence_queue) |-> sentence_queue[i].id]

\* C1: at most one process_audio worker thread is alive at any time, for any
\* interleaving of add_text_to_queue, add_token, stop_audio_processing,
\* reset_audio_playback and wait_for_completion from several caller threads.
C1_AtMostOneWorkerAlive == Cardinality(AliveWorkers) <= 1

\* C2: for calls of add_text_to_queue, add_token and finalize_tokens
\* interleaved from several producer threads, utterances are sent to
\* synthesis in the order they were put on the queue: the ids sent so far are
\* increasing, what is queued is in put order, and everything still queued
\* or held was put after everything already sent by that worker's hand.
C2_SpokenInQueueOrder ==
  /\ Increasing(spoken)
  /\ Increasing(QueueIds)
  /\ \A i \in 1..Len(spoken) : \A k \in 1..Len(sentence_queue) :
       spoken[i] < sentence_queue[k].id

\* C2 witness: utterances of several calls, put by both producers' calls,
\* have been spoken one after the other.
C2_Witness == Len(spoken) >= 3 /\ nput >= 4 /\ Cardinality(AliveWorkers) = 1

\* C3: of the utterances that were queued when reset_audio_playback() was
\* called, none beyond a single one is still sent to synthesis: the rest is
\* discarded.
C3_ResetDiscardsQueued ==
  \A t \in Callers : Cardinality({i \in resetq[t] : InSeq(i, spoken)}) <= 1

\* C4: every call of stop_audio_processing() eventually returns, whatever
\* the other threads do, given that every request and every write ends.
C4_StopReturns == \A t \in Callers : (op[t] = "stop") ~> (op[t] # "stop")

\* C5: in every state in which a call of wait_for_completion() has just
\* returned, unfinished_tasks is zero, the queue is empty and no worker
\* thread is alive.
C5_DrainedOnReturn ==
  [][\A t \in Callers :
       (op[t] = "wait" /\ op'[t] # "wait") =>
         /\ unfinished_tasks' = 0
         /\ sentence_queue' = <<>>
         /\ \A w \in Workers : wpc'[w] \in {"none", "new", "dead"}]_vars

\* C6: the clear done by the stop inside wait_for_completion() removes no
\* utterance: whatever was put on the queue has been taken by the worker
\* when the deque is cleared.
C6_WaitAbandonsNothing ==
  \A t \in Callers :
    (op[t] = "wait" /\ pc[t] = "clear_queue") => sentence_queue = <<>>

NoDup(sq) == \A i, j \in 1..Len(sq) : i # j => sq[i] # sq[j]
Ids == 1..(2 * MaxCalls)

\* C7: when the request or the playback of utterance N raises, the worker
\* stays alive and goes through `finally`; N is marked done there exactly
\* once (unfinished_tasks drops by one, N is not put back and is never sent
\* again); the next queued utterance is still taken and sent; and a call of
\* wait_for_completion() still returns.
C7_FailureIsolation ==
  /\ [][\A w \in Workers :
          /\ wpc[w] = "except" => wpc'[w] \in {"except", "finally"}
          /\ (wpc[w] = "finally" /\ wpc'[w] # "finally") =>
               /\ wpc'[w] = "loop"
               /\ done' = Append(done, sentence[w].id)
               /\ unfinished_tasks' = unfinished_tasks - 1
               /\ sentence_queue' = sentence_queue]_vars
  /\ [](NoDup(done) /\ NoDup(spoken))
  /\ [](\A w \in Workers : wpc[w] = "except" =>
          /\ InSeq(sentence[w].id, spoken)
          /\ ~InSeq(sentence[w].id, done)
          /\ sentence[w].id \notin QueuedIds)
  /\ \A i \in Ids :
       (\E w \in Workers : /\ wpc[w] = "except"
                           /\ sentence_queue # <<>>
                           /\ Head(sentence_queue).id = i)
         ~> InSeq(i, spoken)
  /\ \A t \in Solo : (op[t] = "wait") ~> (op[t] # "wait")

\* C7 witness: utterance N has failed while N+1 is queued and a caller is
\* blocked in wait_for_completion().
C7_Witness ==
  \E w \in Workers :
    /\ wpc[w] = "except"
    /\ sentence_queue # <<>>
    /\ Head(sentence_queue).id = sentence[w].id + 1
    /\ \E t \in Solo : pc[t] = "wait_join"

NonEmpty(xs) == SelectSeq(xs, LAMBDA x : x # <<>>)

\* C8: every item on the sentence queue is non-empty after trimming.
C8_NoEmptyUtterance ==
  \A i \in 1..Len(sentence_queue) : strip(sentence_queue[i].text) # <<>>

\* C9: add_text_to_queue(text) enqueues exactly the trimmed, non-empty
\* sub-segments of text split on "\n\n", in order.
C9_BlockSegmentation ==
  \A t \in Callers :
    (op[t] = "add_text" /\ pc[t] = "ensure") =>
      enqueued[t] = NonEmpty(stripAll(split(text[t])))

\* What add_token(s) on an empty buffer followed by finalize_tokens() puts.
RECURSIVE FedAtOnce(_)
FedAtOnce(buf) ==
  IF HasSep(buf)
    THEN <<strip(split1(buf)[1])>> \o FedAtOnce(remainder(split1(buf)[2]))
    ELSE IF buf # <<>> THEN <<strip(buf)>> ELSE <<>>

\* C10: the utterances enqueued by a token stream and its finalize_tokens()
\* do not depend on how the text was cut into tokens: they are what feeding
\* the concatenated text as one token enqueues.
C10_TokenizationIndependent == flushed => cut = FedAtOnce(fed)

\* C11: validate_voice returns one of the six allowed names for every input;
\* an integer 1..6 gives its table entry, a string that is an allowed name
\* up to case gives that name in lower case, every other value gives "alloy".
C11_VoiceResolution ==
  /\ voice \in AllowedNames
  /\ IF voice_arg.kind = "int" /\ voice_arg.num \in 1..6
       THEN voice = ALLOWED_VOICES[voice_arg.num]
     ELSE IF voice_arg.kind = "str" /\ lower(voice_arg.str) \in AllowedNames
       THEN voice = lower(voice_arg.str)
     ELSE voice = <<"a", "l", "l", "o", "y">>

\* C11 witness: a name given in mixed case has been resolved.
C11_Witness ==
  /\ voice_arg.kind = "str"
  /\ voice_arg.str = <<"N", "o", "V", "a">>
  /\ voice = <<"n", "o", "v", "a">>

\* The workers that have taken an item and not yet called task_done() for it.
Holding == {w \in Workers : sentence[w] # NoSentence}

\* C12: in every reachable state unfinished_tasks is the number of items on
\* the queue plus the number of items a worker has taken and not yet marked
\* done; in particular it is zero once clear_queues has emptied the queue
\* with no worker holding an item.
C12_InFlightCount ==
  unfinished_tasks = Len(sentence_queue) + Cardinality(Holding)

\* No other caller is inside a call and no further call will begin.
Quiet(t) == calls = MaxCalls /\ \A u \in Callers \ {t} : op[u] = "none"

\* C13: a call of wait_for_completion() made once every other call has
\* returned and no further call is submitted eventually returns, whatever
\* the earlier add, flush and stop calls did.
C13_WaitReturns ==
  \A t \in Callers : (op[t] = "wait" /\ Quiet(t)) ~> (op[t] # "wait")

\* C14: every step that changes token_buffer is taken by a caller that holds
\* processing_lock: the append of add_token, the boundary extraction, the
\* clear of finalize_tokens and the clear of clear_queues alike.
C14_BufferUnderLock ==
  [][token_buffer' # token_buffer =>
       \E t \in Callers : processing_lock = t /\ pc'[t] # pc[t]]_vars

\* C15: in the state in which stop_audio_processing() returns, every worker
\* that was alive when it was called has ended, the sentence queue is empty
\* and the token buffer is the empty string; and the clear is done only once
\* the worker has ended.
C15_StopPostcondition ==
  [][\A t \in Callers :
       /\ (op[t] = "stop" /\ pc[t] = "clear_flag" /\ op'[t] # "stop") =>
            /\ \A w \in alive0[t] : ~is_alive(w)'
            /\ sentence_queue' = <<>>
            /\ token_buffer' = <<>>
       /\ (op[t] = "stop" /\ pc[t] # "clear_queue" /\ pc'[t] = "clear_queue") =>
            \A w \in alive0[t] : ~is_alive(w)]_vars

\* C16: a worker leaves its loop (reaches the statement after the `with`
\* block) only in a state where stop_event is set and the queue is empty;
\* from there it does fade_out_audio once, then stops and closes the stream,
\* and ends; it takes and plays nothing after the fade-out began; and a
\* worker ends in no other way.
C16_WorkerExit ==
  [][\A w \in Workers :
       /\ (wpc[w] # "fade" /\ wpc'[w] = "fade") =>
            (stop_event /\ sentence_queue = <<>>)
       /\ wpc[w] = "fade" => wpc'[w] \in {"fade", "close"}
       /\ wpc[w] = "close" => wpc'[w] \in {"close", "dead"}
       /\ (wpc[w] # "dead" /\ wpc'[w] = "dead") => wpc[w] = "close"
       /\ wpc[w] \in {"fade", "close", "dead"} => sentence'[w] = NoSentence]_vars

\* Once a worker has taken an utterance, its request and its writes run to
\* their end or raise, whatever happens to stop_event meanwhile, and the
\* worker lets go of it only by task_done().
Uninterrupted ==
  [][\A w \in Workers :
       /\ wpc[w] = "post" => wpc'[w] \in {"post", "write", "except"}
       /\ wpc[w] = "write" => wpc'[w] \in {"write", "brk", "except"}
       /\ wpc[w] = "except" => wpc'[w] \in {"except", "finally"}
       /\ (sentence[w] # NoSentence /\ sentence'[w] = NoSentence) =>
            done' = Append(done, sentence[w].id)]_vars

\* C17 as stated: a stop request never interrupts an utterance in progress,
\* and wherever the worker reads stop_event (the loop condition, the break
\* test) the utterance it took before has been marked done.
C17_DoneBeforeStopRead ==
  /\ Uninterrupted
  /\ [](\A w \in Workers :
          wpc[w] \in {"loop", "brk"} => sentence[w] = NoSentence)

\* C17 amended: a stop request never interrupts an utterance in progress;
\* when the worker reads stop_event in the break test the request and the
\* writes of its utterance are over and the utterance is not yet marked
\* done; it is marked done before the worker evaluates the loop condition,
\* takes another utterance or leaves the loop.
C17_FinishedBeforeStopRead ==
  /\ Uninterrupted
  /\ [](\A w \in Workers :
          /\ wpc[w] \in {"brk", "brk_empty"} =>
               /\ InSeq(sentence[w].id, spoken)
               /\ ~InSeq(sentence[w].id, done)
          /\ wpc[w] \in {"loop", "loop_empty", "get", "fade", "close", "dead"} =>
               sentence[w] = NoSentence)

\* C17 witness: stop_audio_processing() is waiting for a worker that was in
\* the middle of an utterance and has now finished playing it.
C17_Witness ==
  \E w \in Workers : \E t \in Callers :
    /\ wpc[w] = "brk"
    /\ stop_event
    /\ op[t] = "stop" /\ pc[t] = "stop_wait" /\ joined[t] = w

\* The step is one of caller t's own, inside or entering add_text_to_queue.
StepOfAddText(t) ==
  /\ op[t] = "add_text" \/ op'[t] = "add_text"
  /\ pc'[t] # pc[t] \/ paragraphs'[t] # paragraphs[t]

\* C18: no step of add_text_to_queue changes token_buffer, whatever the text
\* and whatever the buffer holds, and what the call has put when it is done
\* is made of the paragraphs of its text alone.
C18_BlockLeavesBuffer ==
  /\ [][\A t \in Callers : StepOfAddText(t) => token_buffer' = token_buffer]_vars
  /\ [](\A t \in Callers :
          (op[t] = "add_text" /\ pc[t] = "ensure") =>
             enqueued[t] = stripAll(split(text[t])))

\* C18 witness: add_text_to_queue has put its paragraphs while the token
\* buffer holds text of an unfinished token stream.
C18_Witness ==
  \E t \in Callers :
    /\ op[t] = "add_text" /\ pc[t] = "ensure"
    /\ Len(enqueued[t]) >= 2
    /\ token_buffer # <<>>

\* C19: there is no reachable state in which the queue holds an utterance
\* while no worker thread is alive and no call is in progress: neither a stop
\* or reset that will clear it nor a producer that will start a worker.
C19_NoStrandedUtterance ==
  ~ /\ sentence_queue # <<>>
    /\ AliveWorkers = {}
    /\ \A t \in Callers : op[t] = "none"

\* C20: from the first put of an add_text_to_queue call to its last, every
\* put on the queue is this call's next paragraph: no utterance of another
\* thread's add_text_to_queue, add_token or finalize_tokens comes between
\* two paragraphs of the block.
C20_BlockContiguous ==
  [][\A t \in Callers :
       (op[t] = "add_text" /\ pc[t] = "text_put" /\ nput' # nput) =>
          /\ enqueued'[t] = Append(enqueued[t], paragraph_item(Head(paragraphs[t])))
          /\ sentence_queue'[Len(sentence_queue')].id = nput']_vars

\* C20 witness: a thread is between the two puts of its block, utterances of
\* an earlier call are on the queue, and the other thread, free to begin a
\* call, can enter neither add_token nor add_text_to_queue nor
\* finalize_tokens: it waits for the lock.
C20_Witness ==
  \E t \in Callers : \E u \in Callers \ {t} :
    /\ op[t] = "add_text" /\ pc[t] = "text_put"
    /\ Len(enqueued[t]) = 1
    /\ Len(sentence_queue) >= 2
    /\ pc[u] = "idle" /\ calls < MaxCalls
    /\ ENABLED stop_audio_processing(u)
    /\ ~ENABLED (\E token \in Tokens : add_token(u, token))
    /\ ~ENABLED (\E txt \in Texts : add_text_to_queue(u, txt))
    /\ ~ENABLED finalize_tokens(u)

====
